---- MODULE Spec2Model ----
(***************************************************************************)
(* The stateful log tailer of lighthouse                                   *)
(* (src/lighthouse/observers/stateful_log_pattern.py, platform.py).        *)
(*                                                                         *)
(* The file system holds the main log file and its ".1" sibling.  A file   *)
(* is a sequence of bytes; the alphabet is "E" (a byte the configured      *)
(* pattern matches) and NL (the line terminator), so lines have different  *)
(* lengths, may or may not match, and the last line may be unterminated.   *)
(* A rotator's new file gets an inode number no file had before; a file    *)
(* created after a delete may get the number of a file that is gone.       *)
(* st_dev is the same for both paths (they live in one directory) and is   *)
(* left out of the fingerprint.  A rotation is two steps of an external    *)
(* rotator, and an observe() call may run between them.                    *)
(* Every byte carries a history flag "read": some observe() call has       *)
(* returned it.                                                            *)
(*                                                                         *)
(* observe() is modelled twice.  In the one-step model (Observe, Restart)  *)
(* a call is one step: polls are serialized and the files do not change    *)
(* during a call.  In the step-wise model (Call, Fingerprint, Rotated,     *)
(* Handle, Read, Store, Save) a call is a sequence of system calls and     *)
(* accesses to self.state, threads and the environment run between them,   *)
(* and each named target has its own observer and state file.              *)
(*                                                                         *)
(* The parts around the tailer have their own variables and their own      *)
(* specifications, in which the tailer is idle: the match loop on any      *)
(* patterns and lines (Match), the alert rate limiter of state.py and the  *)
(* dispatch of daemon.py (ShouldSendAlert, RecordAlert, HandleAlert,       *)
(* Notify, Record, Tick), the observation history of coordinator.py        *)
(* (Check, RestartCoordinator) and the temporal trigger with its thread    *)
(* loop and its stop() call, one step per statement.                       *)
(***************************************************************************)
EXTENDS Integers, Sequences, FiniteSets, TLC

\* ---------------------------------------------------------------- bounds
MaxBytes == 3      \* largest size of the main file
MaxIno == 3        \* inode numbers ever allocated

NL == "\n"
Bytes == {"E", NL}
\* the pattern list of the tailer models: one pattern, the byte "E"
DefaultPatterns == << <<"E">> >>

\* ------------------------------------------------------ python values
\* A fingerprint is None, a tuple (dev, ino) or, once it went through
\* JSON, a list [dev, ino].  Python's == never equates a list and a tuple.
None == [shape |-> "None", ino |-> 0]
tuple(i) == [shape |-> "tuple", ino |-> i]
list(i) == [shape |-> "list", ino |-> i]

\* json.dump writes a tuple as an array, json.load reads an array as a list
json_dump(v) == IF v.shape = "tuple" THEN list(v.ino) ELSE v

default_state == [fingerprint |-> None, offset |-> 0, rotated_fingerprint |-> None]

VARIABLES
    log_file,          \* the file at the primary path: [exists, ino, readable, bytes]
    rotated_log_file,  \* the file at <path>.1: [exists, ino]
    nextIno,           \* next inode number the file system hands out
    rotation,          \* an external rotation in progress: "idle", "copied", "renamed"
    state,             \* Observer.state, the in-memory TailState
    state_file,        \* the state record on disk: [exists, data]
    last,              \* history: the outcome of the latest observe() call
    touched,           \* history: what happened to the files since the latest call
    restarted,         \* history: the observer was re-created since the latest call
    os_name,           \* the platform: "posix", or "other" (no fingerprint support)
    disk,              \* the volume of the state directory: "ok", "readonly", "full"
    raised,            \* the exception that propagated out of the latest operation
    observers,         \* step-wise model: Observer.state of each named target
    state_dir,         \* step-wise model: the state records on disk, by file name
    calls,             \* step-wise model: the observe() call of each thread
    conc,              \* step-wise model, history: two calls on one observer overlapped
    settled            \* step-wise model, history: "changing", "quiet" once the files
                       \* have stopped changing, "polled" once a poll has succeeded since

\* the parts of the program around the tailer
VARIABLES
    patterns,          \* Observer.patterns, set once by the constructor
    matcher,           \* the match loop of observe(): its inputs and its result
    now,               \* datetime.now(), in units of 20 minutes
    rate_limiting,     \* config.rate_limiting: [cooldown_seconds, max_per_hour]
    alerts,            \* StateManager.alerts: the AlertState of each key
    asked,             \* history: the latest should_send_alert call and its answer
    handling,          \* the _handle_alert call of the daemon
    accepted,          \* history: alerts recorded for each key since its hour started
    coordinator,       \* WatcherCoordinator: its history and its latest check()
    history_file,      \* <name>.history.json: [exists, data]
    trigger,           \* TemporalTrigger: [thread, stop_event]
    threads,           \* the position of each trigger thread in run()
    stopper,           \* the stop() call in progress, and history of stop() and callbacks
    requests           \* webhook trigger: the request each handler thread works on

\* the variables of the step-wise model of observe()
fine == <<observers, state_dir, calls, conc, settled>>

\* the variables of the tailer, in both models
tailer == <<log_file, rotated_log_file, nextIno, rotation, state, state_file,
            last, touched, restarted, os_name, disk, raised, observers, state_dir,
            calls, conc, settled>>

\* the variables of the parts around the tailer
\* the variables of the alert rate limiter and of the daemon's dispatch
limiter == <<now, rate_limiting, alerts, asked, handling, accepted>>

\* the variables of the watcher coordinator
watcher == <<coordinator, history_file>>

\* the variables of the temporal trigger
temporal == <<trigger, threads, stopper>>

\* the variables of the webhook trigger
webhook == <<requests>>

others == <<patterns, matcher, limiter, watcher, temporal, webhook>>

vars == <<tailer, others>>

\* ------------------------------------------------------------- platform
\* faulty variant of get_file_fingerprint: the POSIX branch on every platform
Mut_fingerprint_AnyPlatform(f) == IF ~f.exists THEN None ELSE tuple(f.ino)

\* get_file_fingerprint: None for a missing path; (st_dev, st_ino) on POSIX;
\* None on a platform that is neither Windows nor POSIX
get_file_fingerprint(f) ==
    IF ~f.exists THEN None
    ELSE IF os_name = "posix" THEN tuple(f.ino)
    ELSE None

\* ------------------------------------------------------------ handlers
\* faulty variants of NoRotationHandler.handle: always from 0; no size check
Mut_NoRotation_FromZero(f, st) == 0

Mut_NoRotation_NoSizeCheck(f, st) == st.offset

NoRotationHandler_handle(f, st) ==
    LET offset == st.offset
        file_size == Len(f.bytes)
    IN  IF ~f.exists THEN 0
        ELSE IF file_size < offset THEN 0
        ELSE offset

\* faulty variant of CopytruncateRotationHandler.handle: continue from the stored offset
Mut_Copytruncate_KeepOffset(f, st) == st.offset

CopytruncateRotationHandler_handle(f, st) == 0

\* faulty variant of MoveCreateRotationHandler.handle: the fingerprint is not rebound
Mut_MoveCreate_NoRebind(f, st) == [offset |-> 0, state |-> st]

\* returns the offset and the (mutated) state dictionary
MoveCreateRotationHandler_handle(f, st) ==
    [offset |-> 0,
     state |-> [st EXCEPT !.fingerprint = get_file_fingerprint(f)]]

\* faulty variant of detect_and_handle: the rotated fingerprint is not refreshed
Mut_detect_NoRefresh(f, rf, st) ==
    LET current_fingerprint == get_file_fingerprint(f)
        current_rotated_fingerprint ==
            IF rf.exists THEN get_file_fingerprint(rf) ELSE None
    IN  IF st.fingerprint = current_fingerprint
        THEN IF st.rotated_fingerprint # current_rotated_fingerprint
             THEN [offset |-> CopytruncateRotationHandler_handle(f, st),
                   state |-> st, handler |-> "copytruncate"]
             ELSE [offset |-> NoRotationHandler_handle(f, st),
                   state |-> st, handler |-> "no_rotation"]
        ELSE LET r == MoveCreateRotationHandler_handle(f, st)
             IN  [offset |-> r.offset, state |-> r.state, handler |-> "move_create"]

\* faulty variant of detect_and_handle: a stored main identity of None is
\* special-cased as "unchanged"
Mut_detect_NoneIsUnchanged(f, rf, st) ==
    LET current_fingerprint == get_file_fingerprint(f)
        current_rotated_fingerprint ==
            IF rf.exists THEN get_file_fingerprint(rf) ELSE None
        st1 == [st EXCEPT !.rotated_fingerprint = current_rotated_fingerprint]
    IN  IF st.fingerprint = None \/ st.fingerprint = current_fingerprint
        THEN IF st.rotated_fingerprint # current_rotated_fingerprint
             THEN [offset |-> CopytruncateRotationHandler_handle(f, st1),
                   state |-> st1, handler |-> "copytruncate"]
             ELSE [offset |-> NoRotationHandler_handle(f, st1),
                   state |-> st1, handler |-> "no_rotation"]
        ELSE LET r == MoveCreateRotationHandler_handle(f, st1)
             IN  [offset |-> r.offset, state |-> r.state, handler |-> "move_create"]

\* faulty variant of detect_and_handle: the copy-truncate branch forgets the
\* main identity
Mut_detect_CopytruncateForgets(f, rf, st) ==
    LET current_fingerprint == get_file_fingerprint(f)
        current_rotated_fingerprint ==
            IF rf.exists THEN get_file_fingerprint(rf) ELSE None
        st1 == [st EXCEPT !.rotated_fingerprint = current_rotated_fingerprint]
    IN  IF st.fingerprint = current_fingerprint
        THEN IF st.rotated_fingerprint # current_rotated_fingerprint
             THEN [offset |-> CopytruncateRotationHandler_handle(f, st1),
                   state |-> [st1 EXCEPT !.fingerprint = None],
                   handler |-> "copytruncate"]
             ELSE [offset |-> NoRotationHandler_handle(f, st1),
                   state |-> st1, handler |-> "no_rotation"]
        ELSE LET r == MoveCreateRotationHandler_handle(f, st1)
             IN  [offset |-> r.offset, state |-> r.state, handler |-> "move_create"]

\* faulty variant of detect_and_handle: the move-create branch keeps the stale
\* rotated fingerprint
Mut_detect_StaleOnMoveCreate(f, rf, st) ==
    LET current_fingerprint == get_file_fingerprint(f)
        current_rotated_fingerprint ==
            IF rf.exists THEN get_file_fingerprint(rf) ELSE None
        st1 == [st EXCEPT !.rotated_fingerprint = current_rotated_fingerprint]
    IN  IF st.fingerprint = current_fingerprint
        THEN IF st.rotated_fingerprint # current_rotated_fingerprint
             THEN [offset |-> CopytruncateRotationHandler_handle(f, st1),
                   state |-> st1, handler |-> "copytruncate"]
             ELSE [offset |-> NoRotationHandler_handle(f, st1),
                   state |-> st1, handler |-> "no_rotation"]
        ELSE LET r == MoveCreateRotationHandler_handle(f, st)
             IN  [offset |-> r.offset, state |-> r.state, handler |-> "move_create"]

detect_and_handle(f, rf, st) ==
    LET current_fingerprint == get_file_fingerprint(f)
        stored_fingerprint == st.fingerprint
        stored_rotated_fingerprint == st.rotated_fingerprint
        current_rotated_fingerprint ==
            IF rf.exists THEN get_file_fingerprint(rf) ELSE None
        st1 == [st EXCEPT !.rotated_fingerprint = current_rotated_fingerprint]
    IN  IF stored_fingerprint = current_fingerprint
        THEN IF stored_rotated_fingerprint # current_rotated_fingerprint
             THEN [offset |-> CopytruncateRotationHandler_handle(f, st1),
                   state |-> st1, handler |-> "copytruncate"]
             ELSE [offset |-> NoRotationHandler_handle(f, st1),
                   state |-> st1, handler |-> "no_rotation"]
        ELSE LET r == MoveCreateRotationHandler_handle(f, st1)
             IN  [offset |-> r.offset, state |-> r.state, handler |-> "move_create"]

\* ------------------------------------------------------------- state store
\* What a state file holds: "object" is a JSON object as _save_state writes
\* it; "truncated" is an empty or cut-short text; "not_object" is valid JSON
\* that is no object ([], null, 5); "not_utf8" is bytes that do not decode.
NoStateFile == [exists |-> FALSE, data |-> default_state, text |-> "object", readable |-> TRUE]

\* the exception open() and json.load raise inside _load_state's try block
\* (or the membership test and item assignment on what json.load returned)
load_error(sf) ==
    IF ~sf.readable THEN "PermissionError"
    ELSE IF sf.text = "truncated" THEN "JSONDecodeError"
    ELSE IF sf.text = "not_utf8" THEN "UnicodeDecodeError"
    ELSE IF sf.text = "not_object" THEN "TypeError"
    ELSE "none"

\* the exceptions _load_state catches
_load_state_except == {"JSONDecodeError", "KeyError"}

\* the exception that propagates out of _load_state, hence out of __init__
_load_state_raises(sf) ==
    IF sf.exists /\ load_error(sf) \notin _load_state_except \cup {"none"}
    THEN load_error(sf)
    ELSE "none"

\* the dictionary _load_state returns when it raises nothing
_load_state(sf) ==
    IF ~sf.exists THEN default_state
    ELSE IF load_error(sf) \in _load_state_except THEN default_state
    ELSE sf.data

\* what json.dump writes
_save_state(st) ==
    [exists |-> TRUE,
     data |-> [fingerprint |-> json_dump(st.fingerprint),
               offset |-> st.offset,
               rotated_fingerprint |-> json_dump(st.rotated_fingerprint)],
     text |-> "object", readable |-> TRUE]

\* mkdir, open(..., 'w') and json.dump succeed
save_succeeds(sf) == disk = "ok" /\ (sf.exists => sf.readable)

\* the state file after _save_state: every failure is caught and logged; on a
\* full volume open(..., 'w') has emptied the file before the write fails
save_outcome(sf, st) ==
    IF save_succeeds(sf) THEN _save_state(st)
    ELSE IF disk = "full" /\ (sf.exists => sf.readable)
         THEN [exists |-> TRUE, data |-> default_state, text |-> "truncated",
               readable |-> TRUE]
    ELSE sf

\* ------------------------------------------------------------- tailer
Chars(bs) == [i \in 1..Len(bs) |-> bs[i].ch]

\* f.seek(offset) followed by reading to end of file
read_from(bs, offset) ==
    IF offset >= Len(bs) THEN <<>> ELSE SubSeq(Chars(bs), offset + 1, Len(bs))

\* f.tell() after the read
tell(bs, offset) == IF offset > Len(bs) THEN offset ELSE Len(bs)

EndOfLine(s) ==
    IF \E i \in 1..Len(s) : s[i] = NL
    THEN CHOOSE i \in 1..Len(s) : s[i] = NL /\ \A j \in 1..(i-1) : s[j] # NL
    ELSE Len(s)

RECURSIVE readlines(_)
readlines(s) ==
    IF s = <<>> THEN <<>>
    ELSE <<SubSeq(s, 1, EndOfLine(s))>> \o readlines(SubSeq(s, EndOfLine(s) + 1, Len(s)))

\* ------------------------------------------------------------- match engine
\* re.search with a literal pattern: the pattern occurs somewhere in the line
re_search(pattern, line) ==
    \E i \in 0..(Len(line) - Len(pattern)) : \A j \in 1..Len(pattern) : line[i + j] = pattern[j]

strip(line) == SelectSeq(line, LAMBDA c : c # NL)

AnyPattern(line) == \E k \in 1..Len(patterns) : re_search(patterns[k], line)

\* faulty variant of the inner loop: no break after the first matching pattern
RECURSIVE Mut_match_line_NoBreak(_, _)
Mut_match_line_NoBreak(ps, line) ==
    IF ps = <<>> THEN <<>>
    ELSE IF re_search(Head(ps), line)
         THEN <<strip(line)>> \o Mut_match_line_NoBreak(Tail(ps), line)
         ELSE Mut_match_line_NoBreak(Tail(ps), line)

\* the inner loop over the patterns: what one line adds to matched_lines;
\* the loop breaks at the first pattern that matches
RECURSIVE match_line(_, _)
match_line(ps, line) ==
    IF ps = <<>> THEN <<>>
    ELSE IF re_search(Head(ps), line)
         THEN <<strip(line)>>
         ELSE match_line(Tail(ps), line)

\* the outer loop over the lines read
RECURSIVE search_lines(_, _)
search_lines(ps, lines) ==
    IF lines = <<>> THEN <<>>
    ELSE match_line(ps, Head(lines)) \o search_lines(ps, Tail(lines))

match_lines(lines) == search_lines(patterns, lines)

\* the match loop on its own, for any list of patterns and any lines
MaxLines == 2       \* lines in one read
MaxPatterns == 2    \* configured patterns
LineChars == {"E", "W", "x"}
Patterns == {<<"E">>, <<"W">>, <<"E", "W">>}
Line == {<<a, NL>> : a \in LineChars} \cup {<<a, b, NL>> : a \in LineChars, b \in LineChars}
SeqUpTo(S, n) == UNION {[1..k -> S] : k \in 0..n}

NoMatch == [patterns |-> <<>>, lines |-> <<>>, matched_lines |-> <<>>, value |-> FALSE, done |-> FALSE]

\* ------------------------------------------------------------- observe()
\* faulty variant of the early return: the tail state is reset and saved
Mut_file_not_found_Resets(st) ==
    [status |-> "file not found", handler |-> "-", offset |-> 0, lines |-> <<>>,
     lines_read |-> 0, matched_lines |-> <<>>, value |-> FALSE,
     state |-> default_state, save |-> TRUE]

\* the early return for a missing log file: nothing is classified or saved
file_not_found(st) ==
    [status |-> "file not found", handler |-> "-", offset |-> 0, lines |-> <<>>,
     lines_read |-> 0, matched_lines |-> <<>>, value |-> FALSE,
     state |-> st, save |-> FALSE]

\* faulty variant of the except branch: the offset is stored and saved all the same
Mut_read_error_Saves(f, d) ==
    [status |-> "error", handler |-> d.handler, offset |-> d.offset, lines |-> <<>>,
     lines_read |-> 0, matched_lines |-> <<>>, value |-> FALSE,
     state |-> [d.state EXCEPT !.offset = tell(f.bytes, d.offset)], save |-> TRUE]

\* the except branch of the read: d is what detect_and_handle returned, and
\* self.state is the dictionary it has already written to
read_error(f, d) ==
    [status |-> "error", handler |-> d.handler, offset |-> d.offset, lines |-> <<>>,
     lines_read |-> 0, matched_lines |-> <<>>, value |-> FALSE,
     state |-> d.state, save |-> FALSE]

\* faulty variant of read_ok: the state is saved only when a line matched
Mut_read_ok_SaveOnMatch(f, d) ==
    LET lines == readlines(read_from(f.bytes, d.offset))
        new_offset == tell(f.bytes, d.offset)
        matched == match_lines(lines)
    IN  [status |-> "ok", handler |-> d.handler, offset |-> d.offset, lines |-> lines,
         lines_read |-> Len(lines), matched_lines |-> matched,
         value |-> (matched # <<>>),
         state |-> [d.state EXCEPT !.offset = new_offset],
         save |-> (matched # <<>>)]

\* the read succeeded: match, store the new offset, save
read_ok(f, d) ==
    LET lines == readlines(read_from(f.bytes, d.offset))
        new_offset == tell(f.bytes, d.offset)
        matched == match_lines(lines)
    IN  [status |-> "ok", handler |-> d.handler, offset |-> d.offset, lines |-> lines,
         lines_read |-> Len(lines), matched_lines |-> matched,
         value |-> (matched # <<>>),
         state |-> [d.state EXCEPT !.offset = new_offset],
         save |-> TRUE]

\* The outcome of one observe() call on the given files and in-memory state.
observe(f, rf, st) ==
    IF ~f.exists
    THEN file_not_found(st)
    ELSE LET d == detect_and_handle(f, rf, st)
         IN  IF ~f.readable THEN read_error(f, d) ELSE read_ok(f, d)

\* history: the bytes a successful call returned are flagged as read
MarkRead(bs, offset) ==
    [i \in 1..Len(bs) |-> IF i > offset THEN [bs[i] EXCEPT !.read = TRUE] ELSE bs[i]]

\* history: the bytes of the file that no call has returned yet
Unread(bs) == Chars(SelectSeq(bs, LAMBDA b : ~b.read))

NoCall ==
    [status |-> "none", handler |-> "-", offset |-> 0, lines |-> <<>>,
     lines_read |-> 0, matched_lines |-> <<>>, value |-> FALSE, saved |-> FALSE,
     reread |-> FALSE, news |-> <<>>, pre |-> default_state,
     pre_file |-> NoStateFile,
     before |-> "none", fresh |-> FALSE, touched |-> "none",
     unsaved |-> FALSE, before_unsaved |-> FALSE]

\* ------------------------------------------------------ step-wise model
Names == {"A", "B"}        \* the configured names of the targets
Threads == {1, 2}          \* the threads that call observe()

\* faulty variant: one state file for every target
Mut_state_file_name_Shared(name) == <<"observer", ".state.json">>

\* state_dir / f"{name}.state.json"
state_file_name(name) == <<name, ".state.json">>

StateFiles == {state_file_name(n) : n \in Names}

IdleCall ==
    [pc |-> "idle", name |-> "-", handler |-> "-",
     current_fingerprint |-> None, stored_fingerprint |-> None,
     stored_rotated_fingerprint |-> None, current_rotated_fingerprint |-> None,
     offset |-> 0, new_offset |-> 0, status |-> "none", caught |-> {}]

\* ------------------------------------------------- the alert rate limiter
MaxTime == 4        \* the clock stops here
MaxCount == 3       \* alerts recorded for one key within an hour
NNotifiers == 2     \* configured notifiers

\* timedelta(hours=1), in the clock's unit of 20 minutes
hour == 3

\* faulty variant of the key: the pattern alone
Mut_key_PatternOnly(watcher_name, pattern) == pattern

\* the key of an alert: f"{watcher_name}:{pattern}"
key(watcher_name, pattern) == watcher_name \o ":" \o pattern

\* the (watcher, pattern) pairs that raise alerts
AlertPairs == {<<"db", "disk:full">>, <<"db:disk", "full">>, <<"db", "full">>}

Keys == {key(a[1], a[2]) : a \in AlertPairs}

\* a key that is not in self.alerts
NoAlert == [present |-> FALSE, last_sent |-> 0, count_this_hour |-> 0, hour_start |-> 0]

NoQuestion == [done |-> FALSE, watcher_name |-> "", pattern |-> "", answer |-> FALSE, pre |-> NoAlert, at |-> 0]

NoHandling == [pc |-> "idle", watcher_name |-> "", pattern |-> "", should_send |-> "none", i |-> 1, notified |-> [n \in 1..NNotifiers |-> 0], failed |-> FALSE, recorded |-> 0, pre |-> NoAlert, at |-> 0]

\* the rate limiter and the daemon before the first alert
InitLimiter ==
    /\ now = 0
    /\ alerts = [k \in Keys |-> NoAlert]
    /\ asked = NoQuestion
    /\ handling = NoHandling
    /\ accepted = [k \in Keys |-> 0]

\* ------------------------------------------------- the watcher coordinator
MaxChecks == 103    \* check() calls of one watcher

\* _save_history keeps the last 100 observations
HistoryLimit == 100

\* an ObservationResult: the n-th observation of the watcher
ObservationResult(n) == [value |-> (n % 2 = 1), timestamp |-> n]

NoHistoryFile == [exists |-> FALSE, data |-> <<>>]

NoCheck == [history |-> <<>>, checks |-> 0, op |-> "none", passed |-> <<>>, observation |-> ObservationResult(0)]

InitWatcher ==
    /\ coordinator = NoCheck
    /\ history_file = NoHistoryFile

\* ------------------------------------------------- the temporal trigger
MaxThreads == 2     \* start() calls of one trigger

InitTemporal ==
    /\ trigger = [thread |-> 0, stop_event |-> FALSE]
    /\ threads = [i \in 1..MaxThreads |-> "unborn"]
    /\ stopper = [pc |-> "idle", returned |-> FALSE, late |-> FALSE]

\* ------------------------------------------------- the webhook trigger
\* no request has arrived
NoRequest == [pc |-> "none", path |-> "", auth_header |-> "", target |-> "", timestamp |-> ""]

InitWebhook == requests = [i \in Threads |-> NoRequest]

\* everything but the platform
InitFiles ==
    /\ log_file = [exists |-> TRUE, ino |-> 1, readable |-> TRUE, bytes |-> <<>>]
    /\ rotated_log_file = [exists |-> FALSE, ino |-> 0]
    /\ nextIno = 2
    /\ rotation = "idle"
    /\ state_file = NoStateFile
    /\ state = _load_state(state_file)
    /\ last = NoCall
    /\ touched = "none"
    /\ restarted = FALSE
    /\ disk = "ok"
    /\ raised = "none"
    /\ state_dir = [p \in StateFiles |-> NoStateFile]
    /\ observers = [n \in Names |-> _load_state(state_dir[state_file_name(n)])]
    /\ calls = [t \in Threads |-> IdleCall]
    /\ conc = [overlapped |-> FALSE]
    /\ settled = "changing"

\* the parts around the tailer are idle
InitOthers ==
    /\ patterns = DefaultPatterns
    /\ matcher = NoMatch
    /\ InitLimiter
    /\ rate_limiting = [cooldown_seconds |-> 0, max_per_hour |-> 0]
    /\ InitWatcher
    /\ InitTemporal
    /\ InitWebhook

Init == os_name = "posix" /\ InitFiles /\ InitOthers

\* the observer starts on a platform with or without fingerprint support
InitAnyOS == os_name \in {"posix", "other"} /\ InitFiles /\ InitOthers

\* ------------------------------------------------------------- the observer
Observe ==
    \E r \in {observe(log_file, rotated_log_file, state)} :
        /\ raised = "none"
        /\ state' = r.state
        /\ state_file' = IF r.save THEN save_outcome(state_file, r.state) ELSE state_file
        /\ log_file' = IF r.status = "ok"
                       THEN [log_file EXCEPT !.bytes = MarkRead(@, r.offset)]
                       ELSE log_file
        /\ last' = [status |-> r.status, handler |-> r.handler, offset |-> r.offset,
                    lines |-> r.lines, lines_read |-> r.lines_read,
                    matched_lines |-> r.matched_lines,
                    value |-> r.value, saved |-> (r.save /\ save_succeeds(state_file)),
                    reread |-> (r.status = "ok" /\
                                \E i \in 1..Len(log_file.bytes) :
                                    i > r.offset /\ log_file.bytes[i].read),
                    news |-> Unread(log_file.bytes),
                    pre |-> state, pre_file |-> state_file,
                    before |-> last.status,
                    fresh |-> restarted, touched |-> touched,
                    unsaved |-> IF r.save THEN ~save_succeeds(state_file)
                                ELSE last.unsaved,
                    before_unsaved |-> last.unsaved]
        /\ touched' = "none"
        /\ restarted' = FALSE
        /\ UNCHANGED <<rotated_log_file, nextIno, rotation>>
        /\ UNCHANGED <<os_name, disk, raised>>
        /\ UNCHANGED fine
        /\ UNCHANGED others

\* history: the outcome of a call is kept until something else happens; its
\* status stays, as the status of the previous call
Forget(l) == [NoCall EXCEPT !.status = l.status, !.unsaved = l.unsaved]

\* a new Observer instance: __init__ loads the state file; when _load_state
\* raises, so does the constructor and there is no observer to poll with
Restart ==
    /\ raised' = _load_state_raises(state_file)
    /\ state' = IF raised' = "none" THEN _load_state(state_file) ELSE default_state
    /\ restarted' = TRUE
    /\ last' = Forget(last)
    /\ UNCHANGED <<log_file, rotated_log_file, nextIno, rotation, state_file, touched>>
    /\ UNCHANGED <<os_name, disk>>
    /\ UNCHANGED fine
    /\ UNCHANGED others

\* ------------------------------------------- observe(), one step at a time
\* Each action is one system call, or one access to the shared self.state, of
\* a thread inside observe(); other threads and the environment run between.

\* the variables of the one-step model of observe()
atomic == <<state, state_file, last, restarted>>

Exception == {"FileNotFoundError", "PermissionError"}

\* log_file.stat() in NoRotationHandler.handle
stat_error(f) == IF ~f.exists THEN "FileNotFoundError" ELSE "none"

\* self.log_file.open('r')
open_error(f) ==
    IF ~f.exists THEN "FileNotFoundError"
    ELSE IF ~f.readable THEN "PermissionError"
    ELSE "none"

\* faulty variant: NoRotationHandler.handle catches nothing
Mut_NoRotationHandler_except_Nothing == {}

\* the exceptions NoRotationHandler.handle catches around stat()
NoRotationHandler_except == {"FileNotFoundError"}

\* the exceptions observe() catches around the read
observe_except == Exception

\* faulty variant of the comparisons: None never equals the stored identity
Mut_classify_NoneNeverMatches(stored_fingerprint, current_fingerprint, stored_rotated_fingerprint, current_rotated_fingerprint) ==
    IF stored_fingerprint = current_fingerprint /\ current_fingerprint # None
    THEN IF stored_rotated_fingerprint # current_rotated_fingerprint
            \/ current_rotated_fingerprint = None
         THEN "copytruncate"
         ELSE "no_rotation"
    ELSE "move_create"

\* the branch detect_and_handle takes
classify(stored_fingerprint, current_fingerprint, stored_rotated_fingerprint, current_rotated_fingerprint) ==
    IF stored_fingerprint = current_fingerprint
    THEN IF stored_rotated_fingerprint # current_rotated_fingerprint
         THEN "copytruncate"
         ELSE "no_rotation"
    ELSE "move_create"

\* faulty variant: the new offset is not stored
Mut_store_offset_Keeps(st, new_offset) == st

\* self.state["offset"] = new_offset
store_offset(st, new_offset) == [st EXCEPT !.offset = new_offset]

\* the call of thread t has returned, or raised
Return(t, status) ==
    [IdleCall EXCEPT !.name = calls[t].name, !.caught = calls[t].caught,
                     !.status = status]

\* the locals of detect_and_handle are dead once the handler has run
Handled(c, offset) ==
    [c EXCEPT !.pc = "read", !.offset = offset,
              !.current_fingerprint = None, !.stored_fingerprint = None,
              !.stored_rotated_fingerprint = None,
              !.current_rotated_fingerprint = None]

\* a thread enters observe() of the observer named n: self.log_file.exists()
Call(t, n) ==
    /\ calls[t].pc = "idle"
    /\ calls' = [calls EXCEPT ![t] =
                   IF log_file.exists
                   THEN [IdleCall EXCEPT !.pc = "fingerprint", !.name = n]
                   ELSE [IdleCall EXCEPT !.name = n, !.status = "file not found"]]
    /\ conc' = [conc EXCEPT !.overlapped =
                   @ \/ (log_file.exists /\
                         \E u \in Threads \ {t} : calls[u].pc # "idle" /\ calls[u].name = n)]
    /\ UNCHANGED <<log_file, rotated_log_file, nextIno, rotation, touched,
                   os_name, disk, raised, observers, state_dir, settled>>
    /\ UNCHANGED atomic
    /\ UNCHANGED others

\* detect_and_handle: the fingerprint of the main file, and the stored identities
Fingerprint(t) ==
    /\ calls[t].pc = "fingerprint"
    /\ LET c == calls[t]
       IN  calls' = [calls EXCEPT ![t] =
                       [c EXCEPT !.pc = "rotated",
                                 !.current_fingerprint = get_file_fingerprint(log_file),
                                 !.stored_fingerprint = observers[c.name].fingerprint,
                                 !.stored_rotated_fingerprint =
                                     observers[c.name].rotated_fingerprint]]
    /\ UNCHANGED <<log_file, rotated_log_file, nextIno, rotation, touched,
                   os_name, disk, raised, observers, state_dir, conc, settled>>
    /\ UNCHANGED atomic
    /\ UNCHANGED others

\* detect_and_handle: the fingerprint of the sibling is taken and stored, and
\* the branch is chosen
Rotated(t) ==
    /\ calls[t].pc = "rotated"
    /\ LET c == calls[t]
           current_rotated_fingerprint ==
               IF rotated_log_file.exists THEN get_file_fingerprint(rotated_log_file)
               ELSE None
       IN  /\ observers' = [observers EXCEPT ![c.name].rotated_fingerprint =
                                current_rotated_fingerprint]
           /\ calls' = [calls EXCEPT ![t] =
                          [c EXCEPT !.pc = "handle",
                                    !.current_rotated_fingerprint = current_rotated_fingerprint,
                                    !.handler = classify(c.stored_fingerprint,
                                                         c.current_fingerprint,
                                                         c.stored_rotated_fingerprint,
                                                         current_rotated_fingerprint)]]
    /\ UNCHANGED <<log_file, rotated_log_file, nextIno, rotation, touched,
                   os_name, disk, raised, state_dir, conc, settled>>
    /\ UNCHANGED atomic
    /\ UNCHANGED others

\* the handler of the chosen branch runs
Handle(t) ==
    /\ calls[t].pc = "handle"
    /\ LET c == calls[t]
           st == observers[c.name]
       IN  IF c.handler = "no_rotation"
           THEN IF stat_error(log_file) \notin NoRotationHandler_except \cup {"none"}
                THEN /\ calls' = [calls EXCEPT ![t] = Return(t, "raised")]
                     /\ raised' = stat_error(log_file)
                     /\ UNCHANGED observers
                ELSE /\ calls' = [calls EXCEPT ![t] =
                                    [Handled(c, NoRotationHandler_handle(log_file, st))
                                       EXCEPT !.caught = IF stat_error(log_file) = "none"
                                                         THEN @ ELSE @ \cup {"stat"}]]
                     /\ UNCHANGED <<raised, observers>>
           ELSE IF c.handler = "copytruncate"
           THEN /\ calls' = [calls EXCEPT ![t] =
                               Handled(c, CopytruncateRotationHandler_handle(log_file, st))]
                /\ UNCHANGED <<raised, observers>>
           ELSE LET r == MoveCreateRotationHandler_handle(log_file, st)
                IN  /\ calls' = [calls EXCEPT ![t] = Handled(c, r.offset)]
                    /\ observers' = [observers EXCEPT ![c.name] = r.state]
                    /\ UNCHANGED raised
    /\ UNCHANGED <<log_file, rotated_log_file, nextIno, rotation, touched,
                   os_name, disk, state_dir, conc, settled>>
    /\ UNCHANGED atomic
    /\ UNCHANGED others

\* open, seek, readlines, tell; a failure is caught and ends the call
Read(t) ==
    /\ calls[t].pc = "read"
    /\ LET c == calls[t]
       IN  IF open_error(log_file) = "none"
           THEN /\ calls' = [calls EXCEPT ![t] =
                               [c EXCEPT !.pc = "store", !.offset = 0,
                                         !.new_offset = tell(log_file.bytes, c.offset)]]
                /\ log_file' = [log_file EXCEPT !.bytes = MarkRead(@, c.offset)]
                /\ UNCHANGED raised
           ELSE IF open_error(log_file) \in observe_except
           THEN /\ calls' = [calls EXCEPT ![t] =
                               [Return(t, "error") EXCEPT !.caught = @ \cup {"open"}]]
                /\ UNCHANGED <<log_file, raised>>
           ELSE /\ calls' = [calls EXCEPT ![t] = Return(t, "raised")]
                /\ raised' = open_error(log_file)
                /\ UNCHANGED log_file
    /\ UNCHANGED <<rotated_log_file, nextIno, rotation, touched, os_name, disk,
                   observers, state_dir, conc, settled>>
    /\ UNCHANGED atomic
    /\ UNCHANGED others

\* the new offset is stored in self.state
Store(t) ==
    /\ calls[t].pc = "store"
    /\ observers' = [observers EXCEPT ![calls[t].name] =
                       store_offset(@, calls[t].new_offset)]
    /\ calls' = [calls EXCEPT ![t].pc = "save", ![t].new_offset = 0]
    /\ UNCHANGED <<log_file, rotated_log_file, nextIno, rotation, touched,
                   os_name, disk, raised, state_dir, conc, settled>>
    /\ UNCHANGED atomic
    /\ UNCHANGED others

\* _save_state writes self.state as it is now, and the call returns
Save(t) ==
    /\ calls[t].pc = "save"
    /\ LET n == calls[t].name
           sf == state_dir[state_file_name(n)]
       IN  state_dir' = [state_dir EXCEPT ![state_file_name(n)] =
                           save_outcome(sf, observers[n])]
    /\ calls' = [calls EXCEPT ![t] = Return(t, "ok")]
    /\ settled' = IF settled = "quiet" THEN "polled" ELSE settled
    /\ UNCHANGED <<log_file, rotated_log_file, nextIno, rotation, touched,
                   os_name, disk, raised, observers, conc>>
    /\ UNCHANGED atomic
    /\ UNCHANGED others

\* a new Observer instance for the target named n loads its state file
Construct(n) ==
    /\ \A t \in Threads : calls[t].pc # "idle" => calls[t].name # n
    /\ state_dir[state_file_name(n)].exists
    /\ _load_state_raises(state_dir[state_file_name(n)]) = "none"
    /\ observers' = [observers EXCEPT ![n] = _load_state(state_dir[state_file_name(n)])]
    /\ UNCHANGED <<log_file, rotated_log_file, nextIno, rotation, touched,
                   os_name, disk, raised, state_dir, calls, conc, settled>>
    /\ UNCHANGED atomic
    /\ UNCHANGED others

Step(t) ==
    \/ Fingerprint(t)
    \/ Rotated(t)
    \/ Handle(t)
    \/ Read(t)
    \/ Store(t)
    \/ Save(t)

\* ------------------------------------------------------------- the environment
Touch(kind) == IF touched = "none" THEN kind ELSE IF touched = kind THEN kind ELSE "other"

AppendByte ==
    /\ log_file.exists
    /\ Len(log_file.bytes) < MaxBytes
    /\ \E c \in Bytes :
          log_file' = [log_file EXCEPT !.bytes = Append(@, [ch |-> c, read |-> FALSE])]
    /\ last' = Forget(last)
    /\ touched' = Touch("append")
    /\ UNCHANGED <<rotated_log_file, nextIno, rotation, state, state_file,
                   restarted>>
    /\ UNCHANGED <<os_name, disk, raised>>
    /\ UNCHANGED fine
    /\ UNCHANGED others

\* a writer appends one whole matching line
AppendLine ==
    /\ log_file.exists
    /\ Len(log_file.bytes) + 2 <= MaxBytes
    /\ log_file' = [log_file EXCEPT !.bytes =
                       @ \o <<[ch |-> "E", read |-> FALSE], [ch |-> NL, read |-> FALSE]>>]
    /\ last' = Forget(last)
    /\ touched' = Touch("append")
    /\ UNCHANGED <<rotated_log_file, nextIno, rotation, state, state_file,
                   restarted>>
    /\ UNCHANGED <<os_name, disk, raised>>
    /\ UNCHANGED fine
    /\ UNCHANGED others

\* copy-truncate rotation, step 1: the rotator copies the log to a new file
\* at <path>.1 (an older sibling is moved away or replaced)
CopyToRotated ==
    /\ rotation = "idle"
    /\ log_file.exists
    /\ nextIno <= MaxIno
    /\ rotated_log_file' = [exists |-> TRUE, ino |-> nextIno]
    /\ nextIno' = nextIno + 1
    /\ rotation' = "copied"
    /\ last' = Forget(last)
    /\ touched' = "other"
    /\ UNCHANGED <<log_file, state, state_file, restarted>>
    /\ UNCHANGED <<os_name, disk, raised>>
    /\ UNCHANGED fine
    /\ UNCHANGED others

\* copy-truncate rotation, step 1 with a plain copy onto an existing <path>.1:
\* the sibling is overwritten in place and keeps its inode
CopyOverRotated ==
    /\ rotation = "idle"
    /\ log_file.exists
    /\ rotated_log_file.exists
    /\ rotation' = "copied"
    /\ last' = Forget(last)
    /\ touched' = "other"
    /\ UNCHANGED <<log_file, rotated_log_file, nextIno, state, state_file, restarted>>
    /\ UNCHANGED <<os_name, disk, raised>>
    /\ UNCHANGED fine
    /\ UNCHANGED others

\* copy-truncate rotation, step 2: the log is truncated in place
TruncateAfterCopy ==
    /\ rotation = "copied"
    /\ log_file' = [log_file EXCEPT !.bytes = <<>>]
    /\ rotation' = "idle"
    /\ last' = Forget(last)
    /\ touched' = "other"
    /\ UNCHANGED <<rotated_log_file, nextIno, state, state_file, restarted>>
    /\ UNCHANGED <<os_name, disk, raised>>
    /\ UNCHANGED fine
    /\ UNCHANGED others

\* move-create rotation, step 1: the log is renamed to <path>.1
RenameToRotated ==
    /\ rotation = "idle"
    /\ log_file.exists
    /\ rotated_log_file' = [exists |-> TRUE, ino |-> log_file.ino]
    /\ log_file' = [exists |-> FALSE, ino |-> 0, readable |-> TRUE, bytes |-> <<>>]
    /\ rotation' = "renamed"
    /\ last' = Forget(last)
    /\ touched' = "other"
    /\ UNCHANGED <<nextIno, state, state_file, restarted>>
    /\ UNCHANGED <<os_name, disk, raised>>
    /\ UNCHANGED fine
    /\ UNCHANGED others

\* move-create rotation, step 2: a new log file is created at the path
CreateAfterRename ==
    /\ rotation = "renamed"
    /\ nextIno <= MaxIno
    /\ log_file' = [exists |-> TRUE, ino |-> nextIno, readable |-> TRUE, bytes |-> <<>>]
    /\ nextIno' = nextIno + 1
    /\ rotation' = "idle"
    /\ last' = Forget(last)
    /\ touched' = "other"
    /\ UNCHANGED <<rotated_log_file, state, state_file, restarted>>
    /\ UNCHANGED <<os_name, disk, raised>>
    /\ UNCHANGED fine
    /\ UNCHANGED others

\* the log is truncated in place outside of any rotation
Truncate ==
    /\ rotation = "idle"
    /\ log_file.exists
    /\ log_file.bytes # <<>>
    /\ log_file' = [log_file EXCEPT !.bytes = <<>>]
    /\ last' = Forget(last)
    /\ touched' = "other"
    /\ UNCHANGED <<rotated_log_file, nextIno, rotation, state, state_file,
                   restarted>>
    /\ UNCHANGED <<os_name, disk, raised>>
    /\ UNCHANGED fine
    /\ UNCHANGED others

\* the permissions of the log change: open() fails while it is unreadable
Chmod ==
    /\ log_file.exists
    /\ log_file' = [log_file EXCEPT !.readable = ~@]
    /\ last' = Forget(last)
    /\ touched' = "other"
    /\ UNCHANGED <<rotated_log_file, nextIno, rotation, state, state_file,
                   restarted>>
    /\ UNCHANGED <<os_name, disk, raised>>
    /\ UNCHANGED fine
    /\ UNCHANGED others

\* the log file is removed
Delete ==
    /\ rotation = "idle"
    /\ log_file.exists
    /\ log_file' = [exists |-> FALSE, ino |-> 0, readable |-> TRUE, bytes |-> <<>>]
    /\ last' = Forget(last)
    /\ touched' = "other"
    /\ UNCHANGED <<rotated_log_file, nextIno, rotation, state, state_file,
                   restarted>>
    /\ UNCHANGED <<os_name, disk, raised>>
    /\ UNCHANGED fine
    /\ UNCHANGED others

\* the inode numbers the file system may give a new file: a number never
\* used, or the number of a file that is gone
FreeInodes ==
    {i \in 1..MaxIno : /\ i <= nextIno
                       /\ ~(log_file.exists /\ log_file.ino = i)
                       /\ ~(rotated_log_file.exists /\ rotated_log_file.ino = i)}

\* a file is created at the primary path while there is none
Create ==
    /\ rotation = "idle"
    /\ ~log_file.exists
    /\ \E i \in FreeInodes :
          /\ log_file' = [exists |-> TRUE, ino |-> i, readable |-> TRUE, bytes |-> <<>>]
          /\ nextIno' = IF i = nextIno THEN nextIno + 1 ELSE nextIno
    /\ last' = Forget(last)
    /\ touched' = "other"
    /\ UNCHANGED <<rotated_log_file, rotation, state, state_file, restarted>>
    /\ UNCHANGED <<os_name, disk, raised>>
    /\ UNCHANGED fine
    /\ UNCHANGED others

\* the sibling <path>.1 is removed (compressed away, or expired)
DeleteRotated ==
    /\ rotation = "idle"
    /\ rotated_log_file.exists
    /\ rotated_log_file' = [exists |-> FALSE, ino |-> 0]
    /\ last' = Forget(last)
    /\ touched' = "other"
    /\ UNCHANGED <<log_file, nextIno, rotation, state, state_file, restarted>>
    /\ UNCHANGED <<os_name, disk, raised>>
    /\ UNCHANGED fine
    /\ UNCHANGED others

\* the state file is overwritten or damaged by something else than the observer
CorruptStateFile ==
    /\ state_file.exists
    /\ \E k \in {"truncated", "not_object", "not_utf8"} :
          state_file' = [state_file EXCEPT !.text = k, !.data = default_state]
    /\ last' = Forget(last)
    /\ touched' = "other"
    /\ UNCHANGED <<log_file, rotated_log_file, nextIno, rotation, state, restarted>>
    /\ UNCHANGED <<os_name, disk, raised>>
    /\ UNCHANGED fine
    /\ UNCHANGED others

\* the permissions of the state file change: open() fails while they deny access
ChmodStateFile ==
    /\ state_file.exists
    /\ state_file' = [state_file EXCEPT !.readable = ~@]
    /\ last' = Forget(last)
    /\ touched' = "other"
    /\ UNCHANGED <<log_file, rotated_log_file, nextIno, rotation, state, restarted>>
    /\ UNCHANGED <<os_name, disk, raised>>
    /\ UNCHANGED fine
    /\ UNCHANGED others

\* the volume of the state directory fills up, goes read-only, or recovers
DiskFault ==
    /\ \E d \in {"ok", "readonly", "full"} \ {disk} : disk' = d
    /\ last' = Forget(last)
    /\ touched' = "other"
    /\ UNCHANGED <<log_file, rotated_log_file, nextIno, rotation, state, state_file,
                   restarted>>
    /\ UNCHANGED <<os_name, raised>>
    /\ UNCHANGED fine
    /\ UNCHANGED others

Next ==
    \/ Observe
    \/ Restart
    \/ AppendByte
    \/ CopyToRotated
    \/ CopyOverRotated
    \/ TruncateAfterCopy
    \/ RenameToRotated
    \/ CreateAfterRename
    \/ Truncate
    \/ Chmod

\* every operation: polls, restarts, appends, rotations, truncation, read failures
Spec == Init /\ [][Next]_vars

\* successful, serialized polls with appends and the two rotation schemes
NextRot ==
    \/ Observe
    \/ AppendByte
    \/ CopyToRotated
    \/ CopyOverRotated
    \/ TruncateAfterCopy
    \/ RenameToRotated
    \/ CreateAfterRename

SpecRot == Init /\ [][NextRot]_vars

\* polls with pure appends
NextAppend ==
    \/ Observe
    \/ AppendByte

SpecAppend == Init /\ [][NextAppend]_vars

\* polls, some of which fail to read, with appends and move-create rotations
NextFail ==
    \/ Observe
    \/ AppendByte
    \/ Chmod
    \/ RenameToRotated
    \/ CreateAfterRename

SpecFail == Init /\ [][NextFail]_vars

\* polls of a target that disappears and comes back
NextAbsent ==
    \/ Observe
    \/ AppendByte
    \/ Delete
    \/ Create

SpecAbsent == Init /\ [][NextAbsent]_vars

\* polls and restarts with appends while the state file is damaged or cannot be written
NextStore ==
    \/ Observe
    \/ Restart
    \/ AppendByte
    \/ CorruptStateFile
    \/ ChmodStateFile
    \/ DiskFault

SpecStore == Init /\ [][NextStore]_vars

\* every operation on the log, on a platform with or without fingerprints
NextAnyOS ==
    \/ Observe
    \/ Restart
    \/ AppendByte
    \/ CopyToRotated
    \/ TruncateAfterCopy
    \/ RenameToRotated
    \/ CreateAfterRename
    \/ Truncate
    \/ Chmod

SpecAnyOS == InitAnyOS /\ [][NextAnyOS]_vars

\* one thread inside observe() while the log grows by lines, is deleted,
\* replaced (deleted and re-created), truncated and made unreadable, and
\* while the state file cannot be written
NextRace ==
    \/ Call(1, "A")
    \/ Step(1)
    \/ AppendLine
    \/ Delete
    \/ Create
    \/ Truncate
    \/ Chmod
    \/ DiskFault

SpecRace == Init /\ [][NextRace]_vars

\* one thread inside observe() while the log and its sibling come and go
NextNull ==
    \/ Call(1, "A")
    \/ Step(1)
    \/ Delete
    \/ Create
    \/ CopyToRotated
    \/ TruncateAfterCopy
    \/ DeleteRotated

SpecNull == Init /\ [][NextNull]_vars

\* two threads call observe() of one observer while the log is appended to
NextConc ==
    \/ \E t \in Threads : Call(t, "A")
    \/ \E t \in Threads : Step(t)
    \/ AppendByte

SpecConc == Init /\ [][NextConc]_vars

\* two targets with distinct names, each polled by its own thread
NextTargets ==
    \/ Call(1, "A")
    \/ Call(2, "B")
    \/ \E t \in Threads : Step(t)
    \/ \E n \in Names : Construct(n)
    \/ AppendByte

SpecTargets == Init /\ [][NextTargets]_vars

\* ------------------------------------------------------------ the match loop
\* any patterns and any lines, nothing matched yet
InitMatch ==
    /\ os_name = "posix" /\ InitFiles
    /\ patterns = DefaultPatterns
    /\ InitLimiter
    /\ rate_limiting = [cooldown_seconds |-> 0, max_per_hour |-> 0]
    /\ InitWatcher
    /\ InitTemporal
    /\ InitWebhook
    /\ matcher \in {[NoMatch EXCEPT !.patterns = ps, !.lines = ls] :
                        ps \in SeqUpTo(Patterns, MaxPatterns), ls \in SeqUpTo(Line, MaxLines)}

\* lines 211-240 of observe(): the match loop and the result built from it
Match ==
    /\ ~matcher.done
    /\ LET matched_lines == search_lines(matcher.patterns, matcher.lines)
       IN  matcher' = [matcher EXCEPT !.matched_lines = matched_lines,
                                      !.value = (matched_lines # <<>>),
                                      !.done = TRUE]
    /\ UNCHANGED <<tailer, patterns, limiter, watcher, temporal, webhook>>

NextMatch == Match

SpecMatch == InitMatch /\ [][NextMatch]_vars

\* ----------------------------------------------- the log of test_initial_read
\* "line 1\nERROR: line 2\nline 3\n"
InitialText ==
    <<"l", "i", "n", "e", " ", "1", NL>> \o
    <<"E", "R", "R", "O", "R", ":", " ", "l", "i", "n", "e", " ", "2", NL>> \o
    <<"l", "i", "n", "e", " ", "3", NL>>

\* "ERROR: line 4\n"
AppendedText == <<"E", "R", "R", "O", "R", ":", " ", "l", "i", "n", "e", " ", "4", NL>>

ScenarioText == InitialText \o AppendedText

\* the observer is configured with the pattern "ERROR"
InitScenario ==
    /\ os_name = "posix" /\ InitFiles
    /\ patterns = <<<<"E", "R", "R", "O", "R">>>>
    /\ matcher = NoMatch
    /\ InitLimiter
    /\ rate_limiting = [cooldown_seconds |-> 0, max_per_hour |-> 0]
    /\ InitWatcher
    /\ InitTemporal
    /\ InitWebhook

\* the writer of the log appends the next byte of the text
WriteText ==
    /\ log_file.exists
    /\ Len(log_file.bytes) < Len(ScenarioText)
    /\ log_file' = [log_file EXCEPT !.bytes =
                        Append(@, [ch |-> ScenarioText[Len(@) + 1], read |-> FALSE])]
    /\ touched' = Touch("append")
    /\ last' = Forget(last)
    /\ UNCHANGED <<rotated_log_file, nextIno, rotation, state, state_file, restarted>>
    /\ UNCHANGED <<os_name, disk, raised>>
    /\ UNCHANGED fine
    /\ UNCHANGED others

NextScenario ==
    \/ Observe
    \/ WriteText

SpecScenario == InitScenario /\ [][NextScenario]_vars

\* ------------------------------------------------- StateManager (state.py)
\* faulty variant of the gate: the hourly cap blocks only above max_per_hour
Mut_should_send_alert_CapOffByOne(al, t, watcher_name, pattern, cooldown_seconds, max_per_hour) ==
    LET k == key(watcher_name, pattern)
        st == al[k]
        st1 == IF t - st.hour_start >= hour
               THEN [st EXCEPT !.count_this_hour = 0, !.hour_start = t] ELSE st
    IN  IF ~st.present THEN [answer |-> TRUE, alerts |-> al]
        ELSE IF t - st.last_sent < cooldown_seconds THEN [answer |-> FALSE, alerts |-> al]
        ELSE IF max_per_hour > 0
             THEN [answer |-> ~(st1.count_this_hour > max_per_hour),
                   alerts |-> [al EXCEPT ![k] = st1]]
             ELSE [answer |-> TRUE, alerts |-> al]

\* should_send_alert at time t: its answer, and self.alerts after the call
\* (the hourly counter of the key is reset inside the call)
should_send_alert(al, t, watcher_name, pattern, cooldown_seconds, max_per_hour) ==
    LET k == key(watcher_name, pattern)
        st == al[k]
        st1 == IF t - st.hour_start >= hour
               THEN [st EXCEPT !.count_this_hour = 0, !.hour_start = t] ELSE st
    IN  IF ~st.present THEN [answer |-> TRUE, alerts |-> al]
        ELSE IF t - st.last_sent < cooldown_seconds THEN [answer |-> FALSE, alerts |-> al]
        ELSE IF max_per_hour > 0
             THEN [answer |-> ~(st1.count_this_hour >= max_per_hour),
                   alerts |-> [al EXCEPT ![k] = st1]]
             ELSE [answer |-> TRUE, alerts |-> al]

\* record_alert at time t: self.alerts after the call
record_alert(al, t, watcher_name, pattern) ==
    LET k == key(watcher_name, pattern)
        st == al[k]
        st1 == IF t - st.hour_start >= hour
               THEN [st EXCEPT !.count_this_hour = 0, !.hour_start = t] ELSE st
    IN  IF st.present
        THEN [al EXCEPT ![k] = [st1 EXCEPT !.last_sent = t, !.count_this_hour = @ + 1]]
        ELSE [al EXCEPT ![k] = [present |-> TRUE, last_sent |-> t, count_this_hour |-> 1,
                                hour_start |-> t]]

\* history: the alerts recorded for a key since its hour_start last moved
Tally(k, al, recorded) ==
    IF recorded
    THEN IF ~alerts[k].present \/ al[k].hour_start # alerts[k].hour_start
         THEN 1 ELSE accepted[k] + 1
    ELSE IF al[k].hour_start # alerts[k].hour_start THEN 0 ELSE accepted[k]

\* a caller asks the rate limiter
ShouldSendAlert(w, p) ==
    LET r == should_send_alert(alerts, now, w, p, rate_limiting.cooldown_seconds,
                               rate_limiting.max_per_hour)
    IN  /\ alerts' = r.alerts
        /\ asked' = [done |-> TRUE, watcher_name |-> w, pattern |-> p, answer |-> r.answer,
                     pre |-> alerts[key(w, p)], at |-> now]
        /\ accepted' = [accepted EXCEPT ![key(w, p)] = Tally(key(w, p), r.alerts, FALSE)]
        /\ UNCHANGED <<now, rate_limiting, handling>>
        /\ UNCHANGED <<tailer, patterns, matcher, watcher, temporal, webhook>>

\* a caller records an alert
RecordAlert(w, p) ==
    LET al == record_alert(alerts, now, w, p)
    IN  /\ alerts[key(w, p)].count_this_hour < MaxCount
        /\ alerts' = al
        /\ asked' = NoQuestion
        /\ accepted' = [accepted EXCEPT ![key(w, p)] = Tally(key(w, p), al, TRUE)]
        /\ UNCHANGED <<now, rate_limiting, handling>>
        /\ UNCHANGED <<tailer, patterns, matcher, watcher, temporal, webhook>>

\* time passes
Tick ==
    /\ now < MaxTime
    /\ now' = now + 1
    /\ asked' = NoQuestion
    /\ UNCHANGED <<rate_limiting, alerts, handling, accepted>>
    /\ UNCHANGED <<tailer, patterns, matcher, watcher, temporal, webhook>>

\* the tailer is idle in the specifications of the parts around it
InitTailer ==
    /\ os_name = "posix" /\ InitFiles
    /\ patterns = DefaultPatterns
    /\ matcher = NoMatch

InitAlerts ==
    /\ InitTailer
    /\ InitWatcher
    /\ InitTemporal
    /\ InitWebhook
    /\ InitLimiter
    /\ rate_limiting \in [cooldown_seconds : {0, 2}, max_per_hour : {0, 2}]

NextAlerts ==
    \/ \E a \in AlertPairs : ShouldSendAlert(a[1], a[2])
    \/ \E a \in AlertPairs : RecordAlert(a[1], a[2])
    \/ Tick

SpecAlerts == InitAlerts /\ [][NextAlerts]_vars

\* ------------------------------------- LighthouseDaemon._handle_alert (daemon.py)
NotifyOutcomes == {"True", "False", "raises"}

\* faulty variant: an exception of a notifier leaves _handle_alert
Mut_after_notify_Propagates(h, outcome) ==
    IF outcome = "raises"
    THEN [h EXCEPT !.notified[h.i] = @ + 1, !.failed = TRUE, !.pc = "idle"]
    ELSE [h EXCEPT !.notified[h.i] = @ + 1, !.failed = @ \/ outcome # "True", !.i = @ + 1,
                   !.pc = IF h.i = NNotifiers THEN "record" ELSE "notify"]

\* one turn of the loop over the notifiers: a False result is logged, an
\* exception is caught and logged, and the loop goes on
after_notify(h, outcome) ==
    [h EXCEPT !.notified[h.i] = @ + 1, !.failed = @ \/ outcome # "True", !.i = @ + 1,
              !.pc = IF h.i = NNotifiers THEN "record" ELSE "notify"]

\* _handle_alert is called with a decision; it asks the rate limiter.  The
\* message is shorter than 100 characters, so message[:100] is the message.
HandleAlert(w, m) ==
    LET r == should_send_alert(alerts, now, w, m, rate_limiting.cooldown_seconds,
                               rate_limiting.max_per_hour)
    IN  /\ handling.pc = "idle"
        /\ alerts[key(w, m)].count_this_hour < MaxCount
        /\ alerts' = r.alerts
        /\ handling' = [NoHandling EXCEPT
                           !.pc = IF r.answer THEN "notify" ELSE "idle",
                           !.watcher_name = w, !.pattern = m,
                           !.should_send = IF r.answer THEN "True" ELSE "False",
                           !.pre = alerts[key(w, m)], !.at = now]
        /\ accepted' = [accepted EXCEPT ![key(w, m)] = Tally(key(w, m), r.alerts, FALSE)]
        /\ asked' = NoQuestion
        /\ UNCHANGED <<now, rate_limiting>>
        /\ UNCHANGED <<tailer, patterns, matcher, watcher, temporal, webhook>>

\* the next notifier is called
Notify ==
    /\ handling.pc = "notify"
    /\ \E outcome \in NotifyOutcomes : handling' = after_notify(handling, outcome)
    /\ UNCHANGED <<now, rate_limiting, alerts, asked, accepted>>
    /\ UNCHANGED <<tailer, patterns, matcher, watcher, temporal, webhook>>

\* the alert is recorded and _handle_alert returns
Record ==
    LET k == key(handling.watcher_name, handling.pattern)
        al == record_alert(alerts, now, handling.watcher_name, handling.pattern)
    IN  /\ handling.pc = "record"
        /\ alerts' = al
        /\ handling' = [handling EXCEPT !.recorded = @ + 1, !.pc = "idle"]
        /\ accepted' = [accepted EXCEPT ![k] = Tally(k, al, TRUE)]
        /\ UNCHANGED <<now, rate_limiting, asked>>
        /\ UNCHANGED <<tailer, patterns, matcher, watcher, temporal, webhook>>

NextDaemon ==
    \/ \E a \in AlertPairs : HandleAlert(a[1], a[2])
    \/ Notify
    \/ Record
    \/ Tick

SpecDaemon == InitAlerts /\ [][NextDaemon]_vars

\* --------------------------------------- WatcherCoordinator (coordinator.py)
\* datetime.isoformat() and datetime.fromisoformat()
isoformat(t) == [iso |-> t]
fromisoformat(x) == x.iso

\* an observation as _save_history writes it, and as _load_history rebuilds it
dump_item(item) == [value |-> item.value, timestamp |-> isoformat(item.timestamp)]
load_item(j) == [value |-> j.value, timestamp |-> fromisoformat(j.timestamp)]

\* faulty variant of the slice: the whole history is written
Mut_recent_history_All(history) == history

\* self.history[-100:]
recent_history(history) ==
    IF Len(history) <= HistoryLimit THEN history
    ELSE SubSeq(history, Len(history) - HistoryLimit + 1, Len(history))

\* the file after _save_history
_save_history(history) ==
    LET recent == recent_history(history)
    IN  [exists |-> TRUE, data |-> [i \in 1..Len(recent) |-> dump_item(recent[i])]]

\* self.history after _load_history, which starts from the empty list
_load_history(hf) ==
    IF ~hf.exists THEN <<>> ELSE [i \in 1..Len(hf.data) |-> load_item(hf.data[i])]

\* one check(): observe, evaluate against self.history, append, save
Check ==
    LET observation == ObservationResult(coordinator.checks + 1)
        history == Append(coordinator.history, observation)
    IN  /\ coordinator.checks < MaxChecks
        /\ coordinator' = [history |-> history, checks |-> coordinator.checks + 1,
                           op |-> "check", passed |-> coordinator.history,
                           observation |-> observation]
        /\ history_file' = _save_history(history)
        /\ UNCHANGED <<tailer, patterns, matcher, limiter, temporal, webhook>>

\* the daemon restarts: a new coordinator loads the history file
RestartCoordinator ==
    /\ coordinator.op = "check"
    /\ coordinator' = [coordinator EXCEPT !.history = _load_history(history_file),
                                          !.op = "restart", !.passed = <<>>]
    /\ UNCHANGED history_file
    /\ UNCHANGED <<tailer, patterns, matcher, limiter, temporal, webhook>>

InitHistory ==
    /\ InitTailer
    /\ InitLimiter
    /\ rate_limiting = [cooldown_seconds |-> 0, max_per_hour |-> 0]
    /\ InitWatcher
    /\ InitTemporal
    /\ InitWebhook

NextHistory ==
    \/ Check
    \/ RestartCoordinator

SpecHistory == InitHistory /\ [][NextHistory]_vars

\* ------------------------------------- TemporalTrigger (triggers/temporal.py)
\* start(): a new thread is created and started; self.thread is that thread
Start ==
    /\ \E i \in 1..MaxThreads :
          /\ threads[i] = "unborn"
          /\ \A j \in 1..(i - 1) : threads[j] # "unborn"
          /\ threads' = [threads EXCEPT ![i] = "test"]
          /\ trigger' = [trigger EXCEPT !.thread = i]
    /\ UNCHANGED stopper
    /\ UNCHANGED <<tailer, patterns, matcher, limiter, watcher, webhook>>

\* run(): the loop tests the stop event
Test(i) ==
    /\ threads[i] = "test"
    /\ threads' = [threads EXCEPT ![i] = IF trigger.stop_event THEN "exited" ELSE "call"]
    /\ UNCHANGED <<trigger, stopper>>
    /\ UNCHANGED <<tailer, patterns, matcher, limiter, watcher, webhook>>

\* run(): the callback is invoked
Begin(i) ==
    /\ threads[i] = "call"
    /\ threads' = [threads EXCEPT ![i] = "callback"]
    /\ stopper' = [stopper EXCEPT !.late = @ \/ stopper.returned]
    /\ UNCHANGED trigger
    /\ UNCHANGED <<tailer, patterns, matcher, limiter, watcher, webhook>>

\* run(): the callback returns and the thread waits on the stop event
End(i) ==
    /\ threads[i] = "callback"
    /\ threads' = [threads EXCEPT ![i] = "wait"]
    /\ UNCHANGED <<trigger, stopper>>
    /\ UNCHANGED <<tailer, patterns, matcher, limiter, watcher, webhook>>

\* run(): stop_event.wait(interval) returns, the event set or the interval over
Wake(i) ==
    /\ threads[i] = "wait"
    /\ threads' = [threads EXCEPT ![i] = "test"]
    /\ UNCHANGED <<trigger, stopper>>
    /\ UNCHANGED <<tailer, patterns, matcher, limiter, watcher, webhook>>

\* stop() is called: with no thread it returns at once
after_stop_called(tr) ==
    IF tr.thread = 0 THEN [pc |-> "idle", returned |-> TRUE]
    ELSE [pc |-> "set", returned |-> FALSE]

StopCall ==
    /\ stopper.pc = "idle"
    /\ LET r == after_stop_called(trigger)
       IN  stopper' = [stopper EXCEPT !.pc = r.pc, !.returned = @ \/ r.returned]
    /\ UNCHANGED <<trigger, threads>>
    /\ UNCHANGED <<tailer, patterns, matcher, limiter, watcher, webhook>>

\* stop(): self.stop_event.set()
StopSet ==
    /\ stopper.pc = "set"
    /\ trigger' = [trigger EXCEPT !.stop_event = TRUE]
    /\ stopper' = [stopper EXCEPT !.pc = "join"]
    /\ UNCHANGED threads
    /\ UNCHANGED <<tailer, patterns, matcher, limiter, watcher, webhook>>

\* stop(): join returns because the thread has ended, and stop() returns
JoinDone ==
    /\ stopper.pc = "join"
    /\ threads[trigger.thread] = "exited"
    /\ stopper' = [stopper EXCEPT !.pc = "idle", !.returned = TRUE]
    /\ UNCHANGED <<trigger, threads>>
    /\ UNCHANGED <<tailer, patterns, matcher, limiter, watcher, webhook>>

\* stop(): join(timeout=5) gives up on a thread that is still alive
JoinTimeout ==
    /\ stopper.pc = "join"
    /\ threads[trigger.thread] # "exited"
    /\ stopper' = [stopper EXCEPT !.pc = "idle", !.returned = TRUE]
    /\ UNCHANGED <<trigger, threads>>
    /\ UNCHANGED <<tailer, patterns, matcher, limiter, watcher, webhook>>

NextTrigger ==
    \/ Start
    \/ \E i \in 1..MaxThreads : Test(i)
    \/ \E i \in 1..MaxThreads : Begin(i)
    \/ \E i \in 1..MaxThreads : End(i)
    \/ \E i \in 1..MaxThreads : Wake(i)
    \/ StopCall
    \/ StopSet
    \/ JoinDone
    \/ JoinTimeout

SpecTrigger == InitHistory /\ [][NextTrigger]_vars

\* ===================================================================== claims
\* the state in which an observe() call has just returned: `last` is its
\* outcome and the files are as the call found them
Returned == touched = "none" /\ ~restarted /\ last.status # "none"

\* the two fingerprints denote the same underlying file (or both no file),
\* whatever Python type carries them
SameIdentity(a, b) == a.ino = b.ino

AllRead == \A i \in 1..Len(log_file.bytes) : log_file.bytes[i].read

\* C1: restart safety.  A call by a restarted observer, after a successful
\* call persisted the state: with the files untouched since, it reads no line
\* and leaves the offset unchanged (it is a no-rotation poll); with only
\* appends since, it returns exactly the appended lines.
C1_RestartSafe ==
    (Returned /\ last.status = "ok" /\ last.fresh /\ last.before = "ok") =>
        /\ (last.touched = "none") =>
              /\ last.lines = <<>>
              /\ state.offset = last.pre.offset
        /\ (last.touched \in {"none", "append"}) =>
              /\ ~last.reread
              /\ last.lines = readlines(last.news)

\* C2: no line of the primary log is returned by more than one observe()
\* call, under polls, appends, copy-truncate and move-create rotations.
C2_NoReReporting == Returned => ~last.reread

\* C3: a successful observe() leaves no byte of the primary file unread:
\* it reads everything in the file that no earlier call has returned.
C3_NoSilentLoss == (Returned /\ last.status = "ok") => AllRead

\* C4: under pure appends each call returns exactly the lines appended since
\* the previous call, and the stored offset never decreases.
C4_MonotonicOffset ==
    (Returned /\ last.status = "ok") =>
        /\ last.lines = readlines(last.news)
        /\ ~last.reread
        /\ AllRead
        /\ state.offset >= last.pre.offset

C4_Witness ==
    /\ Returned /\ last.status = "ok"
    /\ last.handler = "no_rotation"
    /\ last.pre.offset > 0
    /\ Len(last.lines) > 1
    /\ state.offset > last.pre.offset

\* the call found the main file to be the file of the stored main identity
MainUnchanged == SameIdentity(last.pre.fingerprint, get_file_fingerprint(log_file))

\* the call found <path>.1 to be the file of the stored rotated identity
RotatedUnchanged ==
    SameIdentity(last.pre.rotated_fingerprint, get_file_fingerprint(rotated_log_file))

\* C5: when the sibling's identity differs from the stored rotated identity
\* and the main file's identity is the stored one, the call reads the main
\* file from offset 0, whatever the size of the main file.
C5_SiblingAloneResets ==
    (Returned /\ last.status = "ok" /\ MainUnchanged /\ ~RotatedUnchanged) =>
        /\ last.offset = 0
        /\ last.lines = readlines(Chars(log_file.bytes))

C5_Witness ==
    /\ Returned /\ last.status = "ok" /\ MainUnchanged /\ ~RotatedUnchanged
    /\ last.handler = "copytruncate"
    /\ last.pre.offset > 0
    /\ Len(log_file.bytes) >= last.pre.offset

\* C6: when the file at the primary path is not the file of the stored main
\* identity, the call reads it from offset 0 to its end and the stored main
\* identity becomes the identity of that file.
C6_MoveCreateResetsAndRebinds ==
    (Returned /\ last.status = "ok" /\ ~MainUnchanged) =>
        /\ last.offset = 0
        /\ last.lines = readlines(Chars(log_file.bytes))
        /\ state.offset = Len(log_file.bytes)
        /\ state.fingerprint = get_file_fingerprint(log_file)

C6_Witness ==
    /\ Returned /\ last.status = "ok" /\ ~MainUnchanged
    /\ last.pre.fingerprint # None
    /\ last.pre.offset > 0
    /\ Len(log_file.bytes) >= last.pre.offset

\* C7: when neither identity changed and the main file is smaller than the
\* stored offset, the call succeeds, reads the file from offset 0 and stores
\* its end as the offset, which is then smaller than the old offset.
C7_SizeRegression ==
    (/\ Returned /\ log_file.exists /\ log_file.readable
     /\ MainUnchanged /\ RotatedUnchanged
     /\ Len(log_file.bytes) < last.pre.offset) =>
        /\ last.status = "ok"
        /\ last.offset = 0
        /\ last.lines = readlines(Chars(log_file.bytes))
        /\ state.offset = Len(log_file.bytes)
        /\ state.offset < last.pre.offset

C7_Witness ==
    /\ Returned /\ last.status = "ok"
    /\ MainUnchanged /\ RotatedUnchanged
    /\ last.handler = "no_rotation"
    /\ Len(log_file.bytes) < last.pre.offset
    /\ last.lines # <<>>

\* C8: a second observe() by the same observer with no change to the main
\* file or its sibling since the first reads no line, matches nothing and
\* leaves the offset and both stored identities as the first call left them.
C8_Idempotent ==
    (Returned /\ last.before # "none" /\ last.touched = "none" /\ ~last.fresh) =>
        /\ last.lines = <<>>
        /\ last.matched_lines = <<>>
        /\ ~last.value
        /\ state = last.pre

C8_Witness ==
    /\ Returned /\ last.before = "ok" /\ last.touched = "none" /\ ~last.fresh
    /\ last.status = "ok"
    /\ state.offset > 0
    /\ rotated_log_file.exists

\* C9: a failed read claims no progress, so the first successful call after
\* a failed one still sees the rotation the failed call saw: it skips no
\* unread byte of the file.
C9_FailedReadLosesNothing ==
    (Returned /\ last.status = "ok" /\ last.before = "error") => AllRead

\* C10: when the read fails, observe() returns matched=false with an error,
\* does not write the state record and does not advance the stored offset.
C10_ReadFailureNoPersist ==
    (Returned /\ last.status = "error") =>
        /\ ~last.value
        /\ last.matched_lines = <<>>
        /\ ~last.saved
        /\ state_file = last.pre_file
        /\ state.offset = last.pre.offset

C10_Witness ==
    /\ Returned /\ last.status = "error"
    /\ state_file.exists
    /\ last.pre.offset > 0
    /\ Len(log_file.bytes) > last.pre.offset

\* C11: when the main file does not exist at poll time, observe() returns
\* matched=false with the not-found status, writes no state record and
\* leaves the tail state unchanged in memory and on disk.
C11_TargetAbsent ==
    (Returned /\ ~log_file.exists) =>
        /\ last.status = "file not found"
        /\ ~last.value
        /\ last.matched_lines = <<>>
        /\ ~last.saved
        /\ state = last.pre
        /\ state_file = last.pre_file

C11_Witness ==
    /\ Returned /\ ~log_file.exists
    /\ last.status = "file not found"
    /\ last.pre.offset > 0
    /\ last.pre.fingerprint # None
    /\ state_file.exists

\* C12: the first poll after a poll that found the target missing reads the
\* file now at the primary path in full, from offset 0, whatever tail state
\* was stored before the file disappeared.
C12_ReappearedReadInFull ==
    (Returned /\ last.status = "ok" /\ last.before = "file not found") =>
        /\ last.offset = 0
        /\ last.lines = readlines(Chars(log_file.bytes))

\* C16: constructing an observer never fails on its state record: when there
\* is no state file, or the file is unreadable or malformed, _load_state
\* returns the defaults (null, null, 0).
C16_CorruptStateDefaults ==
    [][Restart =>
         /\ raised' = "none"
         /\ (~state_file.exists \/ load_error(state_file) # "none") =>
                state' = default_state]_vars

\* C17: a failed save does not abort the poll, which returns the lines it
\* read; an observer restarted after the failure resumes from the offset it
\* loaded, the last one that was persisted, and skips no byte (the log is
\* only appended to).
C17_FailedSaveResumes ==
    /\ (Returned /\ last.status = "ok" /\ ~last.saved) =>
          /\ raised = "none"
          /\ state.offset = Len(log_file.bytes)
          /\ last.lines = readlines(read_from(log_file.bytes, last.offset))
          /\ last.value = (match_lines(last.lines) # <<>>)
    /\ (Returned /\ last.status = "ok" /\ last.fresh /\ last.before_unsaved
           /\ last.touched \in {"none", "append"}) =>
          /\ last.offset = last.pre.offset
          /\ AllRead

\* the call was the first poll of a fresh target whose main file exists
FirstPoll == Returned /\ last.pre = default_state /\ log_file.exists

\* C18 as stated: on the first poll of a fresh target (both stored identities
\* null) whose main file exists, the classifier takes the no-rotation branch
\* with offset 0.
C18_FirstPollNoRotation ==
    FirstPoll => (last.handler = "no_rotation" /\ last.offset = 0)

\* C18 amended: the first poll of a fresh target whose main file exists reads
\* from offset 0 without a special case; where files have fingerprints the
\* stored null differs from the file's identity, so the branch is move-create
\* and the identity is adopted; only where the platform gives no fingerprint
\* does null == null select the no-rotation branch.
C18_FirstPollEstablishesBaseline ==
    FirstPoll =>
        /\ last.offset = 0
        /\ (os_name = "posix") =>
              /\ last.handler = "move_create"
              /\ state.fingerprint = get_file_fingerprint(log_file)
        /\ (os_name # "posix") => last.handler = "no_rotation"

C18_Witness ==
    /\ FirstPoll /\ os_name = "posix"
    /\ last.status = "ok"
    /\ last.handler = "move_create"
    /\ last.lines # <<>>

\* C20: on a platform without fingerprints no poll is classified as
\* copy-truncate or move-create, every poll of an existing readable file
\* succeeds, and the read offset differs from the stored one only when the
\* file is smaller than the stored offset (then it is 0).
C20_UnsupportedIdentityDegrades ==
    (os_name = "other" /\ Returned /\ log_file.exists) =>
        /\ last.handler = "no_rotation"
        /\ log_file.readable => last.status = "ok"
        /\ (last.offset # last.pre.offset) =>
              (last.offset = 0 /\ Len(log_file.bytes) < last.pre.offset)

C20_Witness ==
    /\ os_name = "other" /\ Returned /\ last.status = "ok"
    /\ rotated_log_file.exists
    /\ last.handler = "no_rotation"
    /\ last.pre.offset > 0
    /\ last.offset = 0
    /\ last.lines # <<>>

\* C13: no exception propagates out of observe(): whatever happens to the
\* file between the steps of a poll (deleted, replaced, truncated, made
\* unreadable), the call ends by returning an Observation.
C13_NoExceptionEscapes ==
    /\ raised = "none"
    /\ \A t \in Threads :
          calls[t].status \in {"none", "ok", "error", "file not found"}

C13_Witness ==
    /\ calls[1].pc = "idle"
    /\ calls[1].status = "error"
    /\ calls[1].caught = {"stat", "open"}

\* the offset in the state record of target n
Persisted(n) == state_dir[state_file_name(n)].data.offset

Quiet == \A t \in Threads : calls[t].pc = "idle"

\* a thread reads the file in this step
Reads(t) == calls[t].pc = "read" /\ calls'[t].pc = "store"

\* C14: as long as no two observe() calls on the target have overlapped, and
\* the file is only appended to, the persisted offset never decreases, no
\* byte is returned twice, and once every byte has been returned and no
\* call is running the persisted offset is the end of the file.
C14_SerializedNoLostUpdate ==
    [][~conc.overlapped' =>
         /\ Persisted("A")' >= Persisted("A")
         /\ \A t \in Threads :
               Reads(t) => \A i \in 1..Len(log_file.bytes) :
                              i > calls[t].offset => ~log_file.bytes[i].read
         /\ (Quiet' /\ AllRead') => Persisted("A")' = Len(log_file'.bytes)]_vars

\* two overlapping calls have returned, every byte has been returned, and
\* the persisted offset is behind the end of the file: an update was lost
C14_Witness ==
    /\ conc.overlapped /\ Quiet
    /\ \A t \in Threads : calls[t].status = "ok"
    /\ AllRead
    /\ Persisted("A") > 0
    /\ Persisted("A") < Len(log_file.bytes)

\* the step belongs to a call on target n
StepOf(n) == \E t \in Threads : calls'[t] # calls[t] /\ calls'[t].name = n

\* C15: targets with distinct names are independent: a step of a poll on
\* one target, run between the steps of a poll on another, leaves the other
\* target's in-memory tail state and its state record unchanged.
C15_TargetsIndependent ==
    [][\A n \in Names :
         (~StepOf(n) /\ ~Construct(n)) =>
             /\ observers'[n] = observers[n]
             /\ state_dir'[state_file_name(n)] = state_dir[state_file_name(n)]]_vars

C15_Witness ==
    /\ calls[1].pc = "save" /\ calls[2].pc = "store"
    /\ state_dir[state_file_name("A")].exists
    /\ state_dir[state_file_name("B")].exists
    /\ Persisted("A") # Persisted("B")
    /\ observers["A"].offset # observers["B"].offset

\* thread t has classified the poll and not yet run the handler
Classified(t) == calls[t].pc = "handle"

\* C19 as stated: a null fingerprint is never treated as a match: when the
\* fingerprint of the main file is null the main identity counts as changed,
\* and when that of the sibling is null the rotated identity counts as
\* changed, whether the stored identity is null or not.
C19_NullNeverMatches ==
    \A t \in Threads : Classified(t) =>
        /\ (calls[t].current_fingerprint = None) => calls[t].handler = "move_create"
        /\ (calls[t].current_rotated_fingerprint = None) =>
              calls[t].handler # "no_rotation"

\* C19 amended: a null fingerprint matches the stored identity exactly when
\* the stored identity is null as well; it never matches a stored identity
\* that is not null.
C19_NullMatchesOnlyNull ==
    \A t \in Threads : Classified(t) =>
        /\ (calls[t].current_fingerprint = None) =>
              (calls[t].handler # "move_create" <=> calls[t].stored_fingerprint = None)
        /\ (calls[t].current_rotated_fingerprint = None
               /\ calls[t].handler # "move_create") =>
              (calls[t].handler = "no_rotation"
                 <=> calls[t].stored_rotated_fingerprint = None)

C19_Witness ==
    /\ Classified(1)
    /\ calls[1].current_fingerprint # None
    /\ calls[1].current_rotated_fingerprint = None
    /\ calls[1].stored_rotated_fingerprint # None
    /\ calls[1].handler = "copytruncate"

\* the offset is inside a line: the byte before it does not end a line
Partial(bs, offset) == offset > 0 /\ offset <= Len(bs) /\ bs[offset].ch # NL

\* the offset at which the line holding the byte before `offset` starts
LineStart(bs, offset) ==
    CHOOSE i \in 0..offset :
        /\ (i = 0 \/ bs[i].ch = NL)
        /\ \A j \in (i + 1)..(offset - 1) : bs[j].ch # NL

\* C21: a final line without a terminating newline is read again by the next
\* poll: when the stored offset is inside a line, the poll reads from the
\* start of that line, so the partial line is returned again.
C21_PartialLineReadAgain ==
    (Returned /\ last.status = "ok" /\ last.before = "ok" /\ ~last.fresh
       /\ Partial(log_file.bytes, last.pre.offset)) =>
        /\ last.offset = LineStart(log_file.bytes, last.pre.offset)
        /\ last.lines # <<>>

\* C22: every poll starts from the persisted tail state: the state the poll
\* uses is the one the state file holds (the defaults when there is none),
\* after any history of successful, not-found and failed polls.
C22_PollUsesPersistedState ==
    Returned => _save_state(last.pre).data = _load_state(last.pre_file)

\* some pattern of the list matches the line
Matches(ps, line) == \E k \in 1..Len(ps) : re_search(ps[k], line)

\* C23: the matched lines are exactly the lines read that match at least one
\* pattern, each once per occurrence however many patterns it matches, in
\* input order and stripped; the matched flag is true exactly when the list
\* is not empty.
C23_MatchedLinesExact ==
    matcher.done =>
        LET hit == SelectSeq(matcher.lines, LAMBDA line : Matches(matcher.patterns, line))
        IN  /\ matcher.matched_lines = [i \in 1..Len(hit) |-> strip(hit[i])]
            /\ matcher.value = (matcher.matched_lines # <<>>)

\* a line that matches two patterns, and a line that matches none
C23_Witness ==
    /\ matcher.done
    /\ \E i \in 1..Len(matcher.lines) :
           \E j, k \in 1..Len(matcher.patterns) :
               /\ j # k /\ matcher.patterns[j] # matcher.patterns[k]
               /\ re_search(matcher.patterns[j], matcher.lines[i])
               /\ re_search(matcher.patterns[k], matcher.lines[i])
    /\ \E i \in 1..Len(matcher.lines) : ~Matches(matcher.patterns, matcher.lines[i])
    /\ Len(matcher.matched_lines) = 1

\* the stripped lines "ERROR: line 2" and "ERROR: line 4"
ErrorLine2 == <<"E", "R", "R", "O", "R", ":", " ", "l", "i", "n", "e", " ", "2">>
ErrorLine4 == <<"E", "R", "R", "O", "R", ":", " ", "l", "i", "n", "e", " ", "4">>

\* the first poll of a fresh target found the three initial lines
FirstPollOfInitialText ==
    /\ Returned /\ last.status = "ok"
    /\ last.pre = default_state
    /\ Chars(log_file.bytes) = InitialText

\* a poll that follows it found the fourth line appended
NextPollOfAppendedText ==
    /\ Returned /\ last.status = "ok"
    /\ last.pre.offset = Len(InitialText)
    /\ Chars(log_file.bytes) = ScenarioText

\* C24 as stated: the first poll reports "ERROR: line 2" and stores offset 29;
\* the poll after the append reports "ERROR: line 4" only.
C24_ScenarioAsStated ==
    /\ FirstPollOfInitialText =>
           /\ last.value /\ last.matched_lines = <<ErrorLine2>>
           /\ state.offset = 29
    /\ NextPollOfAppendedText =>
           /\ last.value /\ last.matched_lines = <<ErrorLine4>>

\* C24, amended: the first poll reports "ERROR: line 2" and stores the end of
\* the file, which is offset 28; the poll after the append reports
\* "ERROR: line 4" only and stores offset 42.
C24_Scenario ==
    /\ FirstPollOfInitialText =>
           /\ last.value /\ last.matched_lines = <<ErrorLine2>>
           /\ state.offset = 28 /\ state.offset = Len(log_file.bytes)
    /\ NextPollOfAppendedText =>
           /\ last.value /\ last.matched_lines = <<ErrorLine4>>
           /\ state.offset = 42

\* both polls of the scenario have happened
C24_Witness ==
    /\ NextPollOfAppendedText
    /\ last.pre.offset = 28
    /\ last.matched_lines = <<ErrorLine4>>

\* the identity of the sibling as the poll saw it
CurrentRotated == IF rotated_log_file.exists THEN get_file_fingerprint(rotated_log_file) ELSE None

\* C30: the classifier follows the decision table for every combination of
\* stored and current identities: main and sibling unchanged is no rotation
\* (the stored offset, or 0 when the file is smaller than it); main unchanged
\* and sibling changed is copy-truncate (offset 0); main changed is
\* move-create (offset 0, the stored main identity replaced), whatever the
\* sibling did.
C30_DecisionTable ==
    (Returned /\ last.status = "ok") =>
        LET main_unchanged == SameIdentity(last.pre.fingerprint, get_file_fingerprint(log_file))
            sibling_unchanged == SameIdentity(last.pre.rotated_fingerprint, CurrentRotated)
        IN  /\ (main_unchanged /\ sibling_unchanged) =>
                   /\ last.handler = "no_rotation"
                   /\ last.offset = IF Len(log_file.bytes) < last.pre.offset
                                    THEN 0 ELSE last.pre.offset
            /\ (main_unchanged /\ ~sibling_unchanged) =>
                   (last.handler = "copytruncate" /\ last.offset = 0)
            /\ ~main_unchanged =>
                   /\ last.handler = "move_create" /\ last.offset = 0
                   /\ SameIdentity(state.fingerprint, get_file_fingerprint(log_file))

\* should_send_alert's answer for a pair, as a function of the limiter's state
Answer(al, t, w, p) ==
    should_send_alert(al, t, w, p, rate_limiting.cooldown_seconds, rate_limiting.max_per_hour).answer

\* a key without a recorded alert is allowed, and a key with one is refused
\* until cooldown_seconds have passed since the record
FirstAndCooldown ==
    asked.done =>
        /\ ~asked.pre.present => asked.answer
        /\ (asked.pre.present /\ asked.at - asked.pre.last_sent < rate_limiting.cooldown_seconds)
               => ~asked.answer

\* recording an alert for one pair leaves the answer for every other pair as it was
RecordingIsolated ==
    \A a \in AlertPairs :
        RecordAlert(a[1], a[2]) =>
            \A b \in AlertPairs \ {a} :
                Answer(alerts', now', b[1], b[2]) = Answer(alerts, now, b[1], b[2])

\* C25: alert cooldown.  A (watcher, pattern) pair with no recorded alert is
\* always allowed; after record_alert the pair is refused until
\* cooldown_seconds have elapsed; and recording an alert for one pair never
\* changes the answer for a different watcher or pattern.
C25_AlertCooldown == [] FirstAndCooldown /\ [][RecordingIsolated]_vars

\* C26: hourly cap.  With every alert gated by should_send_alert and then
\* recorded, and max_per_hour = N > 0, at most N alerts are accepted for a key
\* between one reset of its hour and the next; with max_per_hour = 0 an alert
\* is refused only by the cooldown.
C26_HourlyCap ==
    /\ rate_limiting.max_per_hour > 0 =>
           \A k \in Keys : accepted[k] <= rate_limiting.max_per_hour
    /\ (rate_limiting.max_per_hour = 0 /\ handling.should_send = "False") =>
           /\ handling.pre.present
           /\ handling.at - handling.pre.last_sent < rate_limiting.cooldown_seconds

\* the cap, not the cooldown, refused an alert of a key that had N accepted
C26_Witness ==
    /\ rate_limiting.max_per_hour > 0
    /\ handling.should_send = "False"
    /\ handling.at - handling.pre.last_sent >= rate_limiting.cooldown_seconds
    /\ accepted[key(handling.watcher_name, handling.pattern)] = rate_limiting.max_per_hour

\* C27: alert dispatch.  A decision the rate limiter rejects reaches no
\* notifier and is not recorded; an accepted decision is offered to every
\* notifier exactly once, also after a notifier failed or raised, and is then
\* recorded exactly once.
C27_Dispatch ==
    /\ \A n \in 1..NNotifiers : handling.notified[n] <= 1
    /\ handling.recorded <= 1
    /\ handling.should_send = "False" =>
           /\ handling.pc = "idle" /\ handling.recorded = 0
           /\ \A n \in 1..NNotifiers : handling.notified[n] = 0
    /\ (handling.should_send = "True" /\ handling.pc \in {"record", "idle"}) =>
           /\ \A n \in 1..NNotifiers : handling.notified[n] = 1
           /\ handling.recorded = (IF handling.pc = "idle" THEN 1 ELSE 0)
           /\ handling.pc = "idle" =>
                  alerts[key(handling.watcher_name, handling.pattern)].present

\* an accepted decision was dispatched and recorded although a notifier failed
C27_Witness ==
    /\ handling.should_send = "True" /\ handling.pc = "idle"
    /\ handling.failed
    /\ handling.recorded = 1

\* the observations of the first n checks, in order
Observations(n) == [i \in 1..n |-> ObservationResult(i)]

C29_NoCallbackAfterStop == ~stopper.late

\* C31: after every poll that reaches classification, the stored rotated
\* identity is the identity of <path>.1 as that poll observed it (None when
\* the sibling does not exist), in all three branches; so a poll that follows
\* a classifying poll of the same observer, with nothing changed between,
\* does not count the sibling as a rotation again.
C31_RotatedIdentityRefreshed ==
    /\ (Returned /\ last.status \in {"ok", "error"}) =>
           state.rotated_fingerprint = CurrentRotated
    /\ (Returned /\ last.status \in {"ok", "error"} /\
        last.before \in {"ok", "error"} /\ ~last.fresh /\ last.touched = "none") =>
           last.handler # "copytruncate"

C31_Witness ==
    /\ Returned /\ last.status = "ok" /\ last.handler = "move_create"
    /\ rotated_log_file.exists
    /\ ~SameIdentity(last.pre.rotated_fingerprint, CurrentRotated)
    /\ state.rotated_fingerprint = CurrentRotated

\* the state file could be written when the call began
Writable == save_succeeds(last.pre_file)

\* the call left the offset at the file position after its read
OffsetIsPosition == state.offset = tell(log_file.bytes, last.offset)

\* C32 as stated: every successful poll sets the stored offset to the file
\* position after the read and writes the full tail state to the state file
\* before it returns, whether or not a line matched.
C32_AlwaysPersisted ==
    (Returned /\ last.status = "ok") =>
        (OffsetIsPosition /\ state_file = _save_state(state))

\* C32: every successful poll sets the stored offset to the file position
\* after the read, whether or not a line matched; it writes the full tail
\* state to the state file when the file can be written; when it cannot, the
\* poll returns all the same and the state file is left as it was (read-only
\* volume, permission denied) or empty (full volume).
C32_PersistedWhenWritable ==
    (Returned /\ last.status = "ok") =>
        /\ OffsetIsPosition
        /\ Writable => state_file = _save_state(state)
        /\ ~Writable =>
              \/ state_file = last.pre_file
              \/ disk = "full" /\ state_file.text = "truncated"

C32_Witness ==
    /\ Returned /\ last.status = "ok"
    /\ ~last.value /\ last.lines_read > 0
    /\ Writable
    /\ state_file = _save_state(state)
    /\ state.offset = Len(log_file.bytes)

\* C33: the offset a successful read hands on to be stored lies within the
\* file as it is at the time of the read, 0 <= offset <= size, also when the
\* file was truncated between the handler's size check and the read.
C33_OffsetWithinFile ==
    [][\A t \in Threads :
          Reads(t) => (calls'[t].new_offset >= 0 /\
                       calls'[t].new_offset <= Len(log_file.bytes))]_vars

\* C34: a poll classified as no rotation or as copy-truncate leaves the
\* stored main identity as it was; only a poll classified as move-create
\* changes it.
C34_MainIdentityFrame ==
    Returned =>
        /\ last.handler \in {"no_rotation", "copytruncate"} =>
               state.fingerprint = last.pre.fingerprint
        /\ state.fingerprint # last.pre.fingerprint => last.handler = "move_create"

C34_Witness ==
    /\ Returned /\ last.status = "ok" /\ last.handler = "copytruncate"
    /\ last.pre.fingerprint # None /\ last.pre.offset > 0
    /\ state.fingerprint = last.pre.fingerprint

\* C35: the main identity the observer holds when a poll reads the file is
\* the identity of the file it reads, and the offset the read hands on is a
\* position within that file, also when the file was replaced between the
\* fingerprinting and the open.
C35_ReadsTheFileItNames ==
    [][\A t \in Threads :
          Reads(t) =>
              /\ SameIdentity(observers[calls[t].name].fingerprint,
                              get_file_fingerprint(log_file))
              /\ calls'[t].new_offset <= Len(log_file.bytes)]_vars

\* ------------------------------------------------ polls after the files settle
\* the files stop changing, at a moment when no poll is in progress (a poll
\* they changed under has then returned, and left behind what it left)
Settle ==
    /\ settled = "changing"
    /\ Quiet
    /\ settled' = "quiet"
    /\ UNCHANGED <<log_file, rotated_log_file, nextIno, rotation, touched,
                   os_name, disk, raised, observers, state_dir, calls, conc>>
    /\ UNCHANGED atomic
    /\ UNCHANGED others

\* one thread polls while the log grows, is truncated and is rotated by
\* copy and truncate and by rename, until the files settle
NextQuiesce ==
    \/ Call(1, "A")
    \/ Step(1)
    \/ settled = "changing" /\ AppendLine
    \/ settled = "changing" /\ Truncate
    \/ settled = "changing" /\ CopyToRotated
    \/ settled = "changing" /\ TruncateAfterCopy
    \/ settled = "changing" /\ RenameToRotated
    \/ settled = "changing" /\ CreateAfterRename
    \/ Settle

\* the trigger keeps polling, and a poll that has begun runs to its end
SpecQuiesce ==
    /\ Init
    /\ [][NextQuiesce]_vars
    /\ WF_vars(Call(1, "A"))
    /\ WF_vars(Step(1))

\* the stored offset is the size of the main file
Converged == observers["A"].offset = Len(log_file.bytes)

\* C36: convergence after quiescence.  Once the main file and its sibling
\* have stopped changing, a successful poll leaves the stored offset equal to
\* the size of the main file, every later poll reads no line and leaves the
\* tail state unchanged, and, the file being there, such a poll comes;
\* whatever the earlier rotations, truncations and races left behind.
C36_ConvergenceAfterQuiescence ==
    /\ [](settled = "polled" => Converged)
    /\ [][settled = "polled" =>
            /\ observers'["A"] = observers["A"]
            /\ \A t \in Threads :
                  Reads(t) => read_from(log_file.bytes, calls[t].offset) = <<>>]_vars
    /\ (settled = "quiet" /\ log_file.exists) ~> (settled = "polled")

\* the files settled after a rotation, and a poll has since left the stored
\* offset at the size of the main file
C36_Witness ==
    /\ settled = "polled" /\ Quiet
    /\ Converged
    /\ log_file.bytes # <<>>
    /\ rotated_log_file.exists

\* ------------------------------------------------------ the webhook trigger
\* the names register_watcher has been called with
watcher_callbacks == Names

\* the requests that arrive: path, Authorization header, and the target and
\* timestamp of the JSON body
WebhookRequests ==
    [pc : {"none"}, path : {"/api", "/"}, auth_header : {"Bearer key", "Bearer bad"},
     target : {"A", "B", "zz"}, timestamp : {"fresh", "stale"}]

\* _process_request_async up to the callback: "callback" when the request is
\* valid and names a registered watcher, "failed" otherwise
_process_request_async(req) ==
    IF req.auth_header # "Bearer key" THEN "failed"
    ELSE IF req.timestamp # "fresh" THEN "failed"
    ELSE IF req.target \notin watcher_callbacks THEN "failed"
    ELSE "callback"

\* do_POST: the connection is reset, and a request to /api is handed to a new
\* thread; any other path counts as a failed attempt
do_POST(i) ==
    /\ requests[i].pc = "none"
    /\ \E req \in WebhookRequests :
          requests' = [requests EXCEPT ![i] =
                          IF req.path = "/api"
                          THEN [req EXCEPT !.pc = "spawned"]
                          ELSE [NoRequest EXCEPT !.pc = "failed"]]
    /\ UNCHANGED <<tailer, patterns, matcher, limiter, watcher, temporal>>

\* the thread of a request validates it and, when it is valid, is about to
\* call the callback of the watcher it names
ProcessRequest(i) ==
    /\ requests[i].pc = "spawned"
    /\ requests' = [requests EXCEPT ![i] =
                      IF _process_request_async(requests[i]) = "callback"
                      THEN [NoRequest EXCEPT !.pc = "callback",
                                             !.target = requests[i].target]
                      ELSE [NoRequest EXCEPT !.pc = "failed"]]
    /\ UNCHANGED <<tailer, patterns, matcher, limiter, watcher, temporal>>

\* the callback runs coordinator.check(), which calls observe() of the watcher
CallbackObserve(i) ==
    /\ requests[i].pc = "callback"
    /\ calls[i].status = "none"
    /\ Call(i, requests[i].target)

\* check() and the callback return
CallbackReturn(i) ==
    /\ requests[i].pc = "callback"
    /\ calls[i].pc = "idle" /\ calls[i].status # "none"
    /\ requests' = [requests EXCEPT ![i] = [NoRequest EXCEPT !.pc = "done"]]
    /\ UNCHANGED <<tailer, patterns, matcher, limiter, watcher, temporal>>

\* webhook requests arrive while the log grows; each is served by its thread
NextWebhook ==
    \/ \E i \in Threads : do_POST(i)
    \/ \E i \in Threads : ProcessRequest(i)
    \/ \E i \in Threads : CallbackObserve(i)
    \/ \E i \in Threads : Step(i)
    \/ \E i \in Threads : CallbackReturn(i)
    \/ AppendLine

SpecWebhook == Init /\ [][NextWebhook]_vars

\* the threads that are inside the callback of the watcher named n
InCallback(n) == {i \in Threads : requests[i].pc = "callback" /\ requests[i].target = n}

\* C37: the callers serialize the polls of one watcher: at most one
\* check()/observe() call of a given watcher is in progress at any time, also
\* when several valid webhook requests name the same watcher.
C37_PollsSerialized ==
    /\ \A n \in Names : Cardinality(InCallback(n)) <= 1
    /\ ~conc.overlapped

\* what a new observer would load from the state file as it is now
Loaded == _load_state(state_file)

\* C38: state round trip.  The tail state a successful poll has saved, loaded
\* back, is an equal tail state: the offset is the same, a null identity is
\* null, and a non-null identity compares equal to a fresh fingerprint of the
\* same file and unequal to the fingerprint of any other file.
C38_StateRoundTrip ==
    (Returned /\ last.status = "ok" /\ last.saved) =>
        /\ Loaded.offset = state.offset
        /\ state.fingerprint = None => Loaded.fingerprint = None
        /\ state.rotated_fingerprint = None => Loaded.rotated_fingerprint = None
        /\ state.fingerprint # None =>
               /\ Loaded.fingerprint = get_file_fingerprint(log_file)
               /\ \A i \in 1..MaxIno : i # log_file.ino => Loaded.fingerprint # tuple(i)
        /\ state.rotated_fingerprint # None =>
               /\ Loaded.rotated_fingerprint = get_file_fingerprint(rotated_log_file)
               /\ \A i \in 1..MaxIno :
                     i # rotated_log_file.ino => Loaded.rotated_fingerprint # tuple(i)

====
